---- MODULE Spec2Model ----
(***************************************************************************)
(* A model of lib/CSRF.js: the CSRF credential lifecycle of luno-csrf.      *)
(*                                                                         *)
(* A caller (an HTTP request handler) holds a session object in memory and *)
(* runs generate or validate on it.  The synchronous part of an operation  *)
(* is one step (JavaScript runs it without interruption); the session      *)
(* store's answer to luno.post / luno.patch is a later step which invokes  *)
(* the callbacks.  Lists held in session.details.csrf are JavaScript       *)
(* arrays which _expire, generate and validate change in place; the model  *)
(* keeps the caller's session object in sess[c] and applies those changes  *)
(* to it at the step in which the code makes them.                         *)
(***************************************************************************)
EXTENDS Integers, Sequences, FiniteSets, TLC

\* ---------------------------------------------------------------- bounds
MaxCreds == 3       \* credentials generated in one behaviour
MaxTime == 2        \* last instant of the clock (Date.now())
MaxTokens == 2      \* config.maxTokens
Expiry == 1         \* config.expiry, in clock ticks
MaxForms == 2       \* longest list of form names handed to generate

Forms == {"login", "signup"}
Callers == {1, 2}
Errors == {"ECONNRESET", "E500"}
NoError == "null"
NoName == 0         \* a credential without a name / the bare field config.name

VARIABLES
  config,    \* self.config: maxTokens, useName, expireAfterUse, expiry
  now,       \* Date.now()
  nextId,    \* the next value crypto.randomBytes returns (fresh each time)
  nextSess,  \* the id the store gives the next session it creates
  store,     \* the session store: id -> details.csrf of that session
  sess,      \* caller -> the session object the caller holds
  pc,        \* caller -> "idle" | "wait" (a store call is in flight) | "off"
  pending,   \* caller -> the store call in flight
  last       \* caller -> record of the caller's current/last operation

vars == <<config, now, nextId, nextSess, store, sess, pc, pending, last>>

\* ------------------------------------------------------------ data model
Null == [present |-> FALSE, id |-> 0, csrf |-> <<>>]
Session(id, csrf) == [present |-> TRUE, id |-> id, csrf |-> csrf]

NoCall == [kind |-> "none", id |-> 0, details |-> <<>>]

\* The record of one operation of a caller:
\*   op, forms, body, sessIn, time   the call: its arguments, the session object
\*                                   as it was on entry, Date.now()
\*   pruned     session.details.csrf after _expire
\*   details    the details object handed to save
\*   resp       generate's resp object;  hit: the index validate matched at
\*   calls      the store calls issued;  storeErr: the error the store answered
\*   ret        validate's return value ("throw": it raised instead);
\*   cbs        the invocations of the callback
\*   issued     the resp of the generate that returned the session passed in
\*   again      <<x>> when the call repeats the previous validate, which matched
\*              x, on the session that validate returned
\*   run        the credentials of the generate calls for one form made in
\*              sequence so far, each on the session the previous one returned
NoOp ==
  [op |-> "none", forms |-> <<>>, body |-> <<>>, sessIn |-> Null, time |-> 0,
   pruned |-> <<>>, details |-> <<>>, resp |-> <<>>, hit |-> 0,
   calls |-> <<>>, storeErr |-> NoError, ret |-> "none", cbs |-> <<>>,
   issued |-> <<>>, again |-> <<>>, run |-> <<>>]

\* One invocation of the caller's callback: argc arguments were passed.
Cb(err, argc, resp, matched, s, created) ==
  [err |-> err, argc |-> argc, resp |-> resp, matched |-> matched,
   sess |-> s, created |-> created]

\* ------------------------------------------------- generateCredentials()
generateCredentials(k, t) ==
  [name |-> IF config.useName THEN k ELSE NoName, token |-> k, created |-> t]

\* --------------------------------------------------------------- _expire
ExpiredLate(c, t) == c.created < t - config.expiry - 1

Expired(c, t) == c.created < t - config.expiry

RemoveHead(l, j) == Tail(l)

RemoveAt(l, j) == SubSeq(l, 1, j - 1) \o SubSeq(l, j + 1, Len(l))

ExpireLastOnly(l, j, t) == IF j > 0 /\ Expired(l[j], t) THEN RemoveAt(l, j) ELSE l

\* while (j--) { if (expired(l[j])) l.splice(j, 1) }, j counted from 1
RECURSIVE ExpireList(_, _, _)
ExpireList(l, j, t) ==
  IF j = 0 THEN l
  ELSE IF Expired(l[j], t) THEN ExpireList(RemoveAt(l, j), j - 1, t)
       ELSE ExpireList(l, j - 1, t)

\* _expire(session, details) with details = {} on entry: the session's lists
\* after the call (changed in place) and the details object after the call.
Expire(s, t) ==
  IF ~s.present THEN [csrf |-> s.csrf, details |-> <<>>]
  ELSE LET d == s.csrf
           p == [i \in DOMAIN d |-> ExpireList(d[i], Len(d[i]), t)]
           changed == {i \in DOMAIN d : Len(p[i]) # Len(d[i])}
       IN [csrf |-> p, details |-> [i \in changed |-> p[i]]]

\* ------------------------------------------------------------------ save
\* The store calls save issues, in order.
Post(details) == [kind |-> "post", id |-> 0, details |-> details]
PatchLost(id, details) == NoCall

Patch(id, details) == [kind |-> "patch", id |-> id, details |-> details]

SaveBoth(s, details) == <<Post(details), Patch(s.id, details)>>

SaveAlwaysPost(s, details) == <<Post(details)>>

Save(s, details) ==
  IF ~s.present \/ s.id = 0
    THEN <<Post(details)>>
    ELSE <<Patch(s.id, details)>>

\* -------------------------------------------------------------- generate
PutAll(d, f, v) == [g \in Forms |-> IF g \in DOMAIN d /\ g # f THEN d[g] ELSE v]

Put(d, f, v) == [g \in DOMAIN d \cup {f} |-> IF g = f THEN v ELSE d[g]]

\* if (arr.length >= maxTokens) arr.shift()
ShiftLate(arr) == IF Len(arr) > config.maxTokens THEN Tail(arr) ELSE arr

Shift(arr) == IF Len(arr) >= config.maxTokens /\ Len(arr) > 0 THEN Tail(arr) ELSE arr

\* The for loop of generate from index i on.  st.csrf is session.details.csrf
\* (whose arrays the loop changes in place), st.details and st.resp the two
\* objects the loop fills, st.k the next random value.
RECURSIVE GenLoop(_, _, _, _, _)
GenLoop(forms, i, present, st, t) ==
  IF i > Len(forms) THEN st
  ELSE LET f == forms[i]
           own == present /\ f \in DOMAIN st.csrf   \* arr is the session's array
           arr == IF own THEN st.csrf[f] ELSE <<>>
           creds == generateCredentials(st.k, t)
           arr2 == Append(Shift(arr), creds)
       IN GenLoop(forms, i + 1, present,
                  [csrf |-> IF own THEN Put(st.csrf, f, arr2) ELSE st.csrf,
                   details |-> Put(st.details, f, arr2),
                   resp |-> Put(st.resp, f, creds),
                   k |-> st.k + 1], t)

\* generate and validate run as soon as they are called: neither looks at
\* what other requests have in flight for the session.
StartLocked(c) ==
  /\ pc[c] = "idle"
  /\ \A d \in Callers \ {c} : pc[d] = "wait" => pending[d].id # sess[c].id

Start(c) == pc[c] = "idle"

\* ------------------------------------------------- observing a caller
Range(d) == {d[f] : f \in DOMAIN d}

\* The last operation of c called back once, without error, with session s.
Returned(c, s) ==
  /\ pc[c] = "idle"
  /\ Len(last[c].cbs) = 1
  /\ last[c].cbs[1].err = NoError
  /\ last[c].cbs[1].sess = s

HasForm(s, f) == s.present /\ f \in DOMAIN s.csrf

\* The store holds a list for form f of session s.
Stored(s, f) == s.present /\ s.id \in DOMAIN store /\ f \in DOMAIN store[s.id]

\* The run of sequential generate calls for one form that a generate(forms)
\* by c continues or starts: it continues the run of the previous generate
\* when that was for the same single form and c passes the session it
\* returned; it starts one when the session is absent or has no data for the
\* form, in memory and in the store.
Run(c, forms, resp) ==
  IF Len(forms) # 1 THEN <<>>
  ELSE IF /\ last[c].op = "generate" /\ last[c].forms = forms
          /\ last[c].run # <<>> /\ Returned(c, sess[c])
         THEN Append(last[c].run, resp[forms[1]])
       ELSE IF ~HasForm(sess[c], forms[1]) /\ ~Stored(sess[c], forms[1])
         THEN <<resp[forms[1]]>>
       ELSE <<>>

FormLists == UNION {[1..n -> Forms] : n \in 0..MaxForms}

Generate(c, forms) ==
  /\ Start(c)
  /\ nextId + Len(forms) - 1 <= MaxCreds
  /\ LET s == sess[c]
         e == Expire(s, now)
         g == GenLoop(forms, 1, s.present,
                      [csrf |-> e.csrf, details |-> e.details, resp |-> <<>>, k |-> nextId],
                      now)
         calls == Save(s, g.details)
     IN /\ sess' = [sess EXCEPT ![c].csrf = g.csrf]
        /\ nextId' = g.k
        /\ pending' = [pending EXCEPT ![c] = calls[1]]
        /\ pc' = [pc EXCEPT ![c] = "wait"]
        /\ last' = [last EXCEPT ![c] =
                      [NoOp EXCEPT !.op = "generate", !.forms = forms, !.sessIn = s,
                                   !.time = now, !.pruned = e.csrf,
                                   !.details = g.details, !.resp = g.resp,
                                   !.calls = calls, !.run = Run(c, forms, g.resp)]]
  /\ UNCHANGED <<config, now, nextSess, store>>

\* -------------------------------------------------------------- validate
\* body[name]: <<v>> when the body has the field, <<>> (undefined) otherwise
Field(body, name) == IF name \in DOMAIN body THEN <<body[name]>> ELSE <<>>

\* req.body when the request carried no parsed body: undefined
NoBody == (-1 :> -1)

\* body[name] raises a TypeError when body is undefined; the loop evaluates it
\* for the first credential of a list that is not empty.
Throws(csrf, body) == body = NoBody /\ Len(csrf) > 0

\* scmp(a, b): constant-time equality of the submitted value and the token
Scmp(a, b) == a = <<b>>

FieldNameOfCred(c) == c.name

\* var name = config.name; if (config.useName && c.name) name += c.name
FieldName(c) == IF config.useName /\ c.name # NoName THEN c.name ELSE NoName

\* The index the for loop of validate stops at, 0 when it runs to the end.
Match(csrf, body) ==
  LET hits == {i \in 1..Len(csrf) : Scmp(Field(body, FieldName(csrf[i])), csrf[i].token)}
  IN IF hits = {} THEN 0 ELSE CHOOSE i \in hits : \A j \in hits : i <= j

\* The bodies a client submits: every body that names the field of a credential
\* the caller's session holds or the last generate returned, with that
\* credential's token or with another value, the token under another field
\* name, the body of the previous request again, the empty body and no body at
\* all.  Any other body meets no stored credential and behaves as the empty
\* one.
ListCreds(csrf) == UNION {Range(csrf[f]) : f \in DOMAIN csrf}
Seen(c) == ListCreds(sess[c].csrf) \cup Range(last[c].resp)
OtherName(x) == IF FieldName(x) = NoName THEN x.token ELSE NoName
Bodies(c) ==
  {<<>>, NoBody, last[c].body} \cup
  UNION {{(FieldName(x) :> x.token), (FieldName(x) :> x.token + 1),
          (OtherName(x) :> x.token)} : x \in Seen(c)}

\* if (!self.config.expireAfterUse) { cb(null, true, session); return true; }
AlwaysExpire == TRUE

ExpireAfterUse == config.expireAfterUse

\* inputHTML(creds): the field a form carries for a credential
FormBody(x) == (FieldName(x) :> x.token)

\* The credentials of the generate whose returned session c now passes on.
Issued(c) ==
  IF last[c].op = "generate" /\ Returned(c, sess[c]) THEN last[c].resp ELSE <<>>

\* <<x>> when validate(form, body) by c repeats c's previous validate, which
\* matched credential x, on the session that validate returned.
Again(c, form, body) ==
  IF /\ last[c].op = "validate" /\ last[c].forms = <<form>> /\ last[c].body = body
     /\ last[c].hit > 0 /\ Returned(c, sess[c])
    THEN <<last[c].pruned[form][last[c].hit]>>
    ELSE <<>>

\* csrf = session.details.csrf[form], after _expire: csrf = details[form] || csrf
AllLists(csrf, form) ==
  IF DOMAIN csrf = Forms THEN csrf["login"] \o csrf["signup"] ELSE csrf[form]

FormList(csrf, form) == csrf[form]

Validate(c, form, body) ==
  /\ Start(c)
  /\ LET s == sess[c]
         has == s.present /\ form \in DOMAIN s.csrf
         e == Expire(s, now)
         csrf == FormList(e.csrf, form)
         i == Match(csrf, body)
         rest == RemoveAt(csrf, i)
         details == Put(e.details, form, rest)
         calls == Save(s, details)
         op == [NoOp EXCEPT !.op = "validate", !.forms = <<form>>, !.body = body,
                            !.sessIn = s, !.time = now,
                            !.issued = Issued(c), !.again = Again(c, form, body)]
     IN \/ /\ ~has
           /\ last' = [last EXCEPT ![c] =
                 [op EXCEPT !.ret = "false",
                            !.cbs = <<Cb(NoError, 2, <<>>, FALSE, Null, "undefined")>>]]
           /\ UNCHANGED <<sess, pending, pc>>
        \/ /\ has /\ Throws(csrf, body)
           /\ sess' = [sess EXCEPT ![c].csrf = e.csrf]
           /\ last' = [last EXCEPT ![c] = [op EXCEPT !.ret = "throw", !.pruned = e.csrf]]
           /\ UNCHANGED <<pending, pc>>
        \/ /\ has /\ ~Throws(csrf, body) /\ i = 0
           /\ sess' = [sess EXCEPT ![c].csrf = e.csrf]
           /\ last' = [last EXCEPT ![c] =
                 [op EXCEPT !.ret = "false", !.pruned = e.csrf,
                            !.cbs = <<Cb(NoError, 2, <<>>, FALSE, Null, "undefined")>>]]
           /\ UNCHANGED <<pending, pc>>
        \/ /\ has /\ ~Throws(csrf, body) /\ i > 0 /\ ~ExpireAfterUse
           /\ sess' = [sess EXCEPT ![c].csrf = e.csrf]
           /\ last' = [last EXCEPT ![c] =
                 [op EXCEPT !.ret = "true", !.pruned = e.csrf, !.hit = i,
                            !.cbs = <<Cb(NoError, 3, <<>>, TRUE, sess'[c], "undefined")>>]]
           /\ UNCHANGED <<pending, pc>>
        \/ /\ has /\ ~Throws(csrf, body) /\ i > 0 /\ ExpireAfterUse
           /\ sess' = [sess EXCEPT ![c].csrf = Put(e.csrf, form, rest)]
           /\ pending' = [pending EXCEPT ![c] = calls[1]]
           /\ pc' = [pc EXCEPT ![c] = "wait"]
           /\ last' = [last EXCEPT ![c] =
                 [op EXCEPT !.ret = "true", !.pruned = e.csrf, !.hit = i,
                            !.details = details, !.calls = calls]]
  /\ UNCHANGED <<config, now, nextId, nextSess, store>>

\* ------------------------------------------------------- the session store
\* PATCH /sessions/:id with body {details: {csrf: details}}: the forms sent
\* replace the stored lists of those forms, the other forms stay.  (The store
\* is the Luno service; generate and validate send only the lists they
\* changed, so they rely on the update being a merge by form.)
Merge(old, details) ==
  [f \in DOMAIN old \cup DOMAIN details |->
     IF f \in DOMAIN details THEN details[f] ELSE old[f]]

\* The callback generate / validate hands to save, on success.
Done(op, s, created) ==
  IF op.op = "generate"
    THEN Cb(NoError, 4, op.resp, FALSE, s, created)
    ELSE Cb(NoError, 3, <<>>, TRUE, s, "undefined")

FailedGeneric(op, e) == Cb("Invalid CSRF", 2, <<>>, FALSE, Null, "undefined")

\* if (err) return cb(err)
Failed(op, e) == Cb(e, 1, <<>>, FALSE, Null, "undefined")

\* validateMiddleware(form): what it hands to next for each invocation of
\* the callback it gave validateReq: function(err, success) {
\*   if (!success) return next(new Error('Invalid CSRF')); next(); }
InvalidCSRF == "Invalid CSRF"
Passed == "next()"

ValidateMiddlewareEarly(l) == IF l.ret = "true" THEN <<Passed>> ELSE <<InvalidCSRF>>

ValidateMiddleware(l) ==
  [k \in 1..Len(l.cbs) |->
     IF l.cbs[k].argc >= 2 /\ l.cbs[k].matched THEN Passed ELSE InvalidCSRF]

\* validateMiddlewareQuick(form): what it does once validateReq has returned:
\*   if (!self.validateReq(form, req)) return next(new Error('Invalid CSRF'));
\*   next();
\* (an exception of validateReq leaves the middleware)
ValidateMiddlewareQuick(l) ==
  CASE l.ret = "true" -> Passed
    [] l.ret = "false" -> InvalidCSRF
    [] OTHER -> "throw"

PostOk(c) ==
  /\ pc[c] = "wait" /\ pending[c].kind = "post"
  /\ LET created == Session(nextSess, pending[c].details)
     IN /\ store' = (nextSess :> created.csrf) @@ store
        /\ sess' = [sess EXCEPT ![c] = created]
        /\ last' = [last EXCEPT ![c].cbs = Append(@, Done(last[c], created, "true"))]
  /\ nextSess' = nextSess + 1
  /\ pc' = [pc EXCEPT ![c] = "idle"]
  /\ pending' = [pending EXCEPT ![c] = NoCall]
  /\ UNCHANGED <<config, now, nextId>>

PatchOk(c) ==
  /\ pc[c] = "wait" /\ pending[c].kind = "patch"
  /\ LET id == pending[c].id
     IN store' = [store EXCEPT ![id] = Merge(@, pending[c].details)]
  /\ last' = [last EXCEPT ![c].cbs = Append(@, Done(last[c], sess[c], "false"))]
  /\ pc' = [pc EXCEPT ![c] = "idle"]
  /\ pending' = [pending EXCEPT ![c] = NoCall]
  /\ UNCHANGED <<config, now, nextId, nextSess, sess>>

StoreFail(c, e) ==
  /\ pc[c] = "wait" /\ pending[c].kind # "none"
  /\ last' = [last EXCEPT ![c].cbs = Append(@, Failed(last[c], e)),
                          ![c].storeErr = e]
  /\ pc' = [pc EXCEPT ![c] = "idle"]
  /\ pending' = [pending EXCEPT ![c] = NoCall]
  /\ UNCHANGED <<config, now, nextId, nextSess, store, sess>>

\* A new request of the same client: luno.session() loads req.session from
\* the store by the session cookie.
Fetch(c) ==
  /\ pc[c] = "idle"
  /\ sess[c].present /\ sess[c].id \in DOMAIN store
  /\ sess[c].csrf # store[sess[c].id]
  /\ sess' = [sess EXCEPT ![c].csrf = store[sess[c].id]]
  /\ last' = [last EXCEPT ![c] = NoOp]
  /\ UNCHANGED <<config, now, nextId, nextSess, store, pc, pending>>

\* The clock advances.  The store's callbacks never read the clock, so a tick
\* during a store call commutes with the answer; it is taken between steps.
\* Before the first credential exists nothing depends on the time, so the
\* clock is started with the first generate.
Tick ==
  /\ \A c \in Callers : pc[c] # "wait"
  /\ nextId > 1
  /\ now < MaxTime
  /\ now' = now + 1
  /\ UNCHANGED <<config, nextId, nextSess, store, sess, pc, pending, last>>

\* ---------------------------------------------------------- specification
Configs ==
  [maxTokens : {MaxTokens}, useName : BOOLEAN, expireAfterUse : BOOLEAN,
   expiry : {Expiry}]

Init ==
  /\ config \in Configs
  /\ now = 0
  /\ nextId = 1
  /\ nextSess = 2
  /\ store = (1 :> <<>>)
  /\ sess \in {[c \in Callers |-> IF c = 1 THEN s ELSE Null] :
                 s \in {Null, Session(1, <<>>)}}
  /\ pc = [c \in Callers |-> IF c = 1 THEN "idle" ELSE "off"]
  /\ pending = [c \in Callers |-> NoCall]
  /\ last = [c \in Callers |-> NoOp]

Next ==
  \/ \E c \in Callers, forms \in FormLists : Generate(c, forms)
  \/ \E c \in Callers, form \in Forms : \E body \in Bodies(c) : Validate(c, form, body)
  \/ \E c \in Callers : PostOk(c)
  \/ \E c \in Callers : PatchOk(c)
  \/ \E c \in Callers, e \in Errors : StoreFail(c, e)
  \/ \E c \in Callers : Fetch(c)
  \/ Tick

\* One client, one request at a time.
Spec == Init /\ [][Next]_vars

\* The store invokes the callback of every call it is sent: an outstanding
\* call is answered, with the session or with an error.
Answer(c) == PostOk(c) \/ PatchOk(c) \/ \E e \in Errors : StoreFail(c, e)

SpecLive == Init /\ [][Next]_vars /\ \A c \in Callers : WF_vars(Answer(c))

\* Two requests of one client at once.  An earlier request generated one
\* credential for the login form; both handlers hold the session as
\* luno.session() loaded it, and their store calls are answered in any order.
Loaded == [login |-> <<generateCredentials(1, 0)>>]

InitRace ==
  /\ config \in Configs
  /\ now = 0
  /\ nextId = 2
  /\ nextSess = 2
  /\ store = (1 :> Loaded)
  /\ sess = [c \in Callers |-> Session(1, Loaded)]
  /\ pc = [c \in Callers |-> "idle"]
  /\ pending = [c \in Callers |-> NoCall]
  /\ last = [c \in Callers |-> NoOp]

NextRace ==
  \/ \E c \in Callers, forms \in FormLists : Generate(c, forms)
  \/ \E c \in Callers, form \in Forms : \E body \in Bodies(c) : Validate(c, form, body)
  \/ \E c \in Callers : PatchOk(c)

SpecRace == InitRace /\ [][NextRace]_vars

\* A session whose login list was filled under an earlier configuration: each
\* of its two credentials was generated with useName on or off, whatever
\* useName is now.  The client submits any body of Bodies or a body carrying
\* the fields of two credentials.
Named(k, t) == {[name |-> n, token |-> k, created |-> t] : n \in {NoName, k}}

Both(c) ==
  {FormBody(x) @@ FormBody(y) : x \in Seen(c), y \in Seen(c)}

InitMatch ==
  /\ config \in Configs
  /\ now = 0
  /\ nextId = 3
  /\ nextSess = 2
  /\ \E x \in Named(1, 0), y \in Named(2, 0) :
       /\ store = (1 :> [login |-> <<x, y>>])
       /\ sess = [c \in Callers |-> IF c = 1 THEN Session(1, store[1]) ELSE Null]
  /\ pc = [c \in Callers |-> IF c = 1 THEN "idle" ELSE "off"]
  /\ pending = [c \in Callers |-> NoCall]
  /\ last = [c \in Callers |-> NoOp]

NextMatch ==
  \/ \E c \in Callers, forms \in FormLists : Generate(c, forms)
  \/ \E c \in Callers, form \in Forms :
       \E body \in Bodies(c) \cup Both(c) : Validate(c, form, body)
  \/ \E c \in Callers : PatchOk(c)
  \/ \E c \in Callers, e \in Errors : StoreFail(c, e)
  \/ \E c \in Callers : Fetch(c)
  \/ Tick

SpecMatch == InitMatch /\ [][NextMatch]_vars

\* ------------------------------------------------------------ properties
Min(a, b) == IF a <= b THEN a ELSE b
LastN(l, n) == SubSeq(l, Len(l) - n + 1, Len(l))
Succeeded(c) == pc[c] = "idle" /\ Len(last[c].cbs) = 1 /\ last[c].cbs[1].err = NoError
FailedOp(c) == pc[c] = "idle" /\ Len(last[c].cbs) = 1 /\ last[c].cbs[1].err # NoError

\* C1: a credential that generate returned for form f, submitted under its
\* field name in validate(f, returned session, body) before it expires, is
\* matched, whatever session generate was given; the same validate repeated on
\* the session the first one returned is not matched when expireAfterUse is
\* true and is matched again when it is false.
C1_RoundTrip ==
  \A c \in Callers :
    LET l == last[c] IN
    l.op = "validate" =>
      /\ ( /\ l.forms[1] \in DOMAIN l.issued
           /\ l.body = FormBody(l.issued[l.forms[1]])
           /\ ~Expired(l.issued[l.forms[1]], l.time) ) => l.ret = "true"
      /\ l.again # <<>> =>
           IF config.expireAfterUse THEN l.ret = "false"
           ELSE (~Expired(l.again[1], l.time) => l.ret = "true")

\* C2: every list of the details object that generate hands to save has at
\* most maxTokens credentials.
C2_Bounded ==
  \A c \in Callers :
    last[c].op = "generate" =>
      \A f \in DOMAIN last[c].details : Len(last[c].details[f]) <= config.maxTokens

\* A generate that found a full list and evicted from it.
C2_Witness ==
  \E c \in Callers :
    /\ last[c].op = "generate"
    /\ \E f \in DOMAIN last[c].details :
         /\ HasForm(last[c].sessIn, f)
         /\ Len(last[c].pruned[f]) = config.maxTokens
         /\ Len(last[c].details[f]) = config.maxTokens
         /\ last[c].details[f] # last[c].pruned[f]

\* C3: for every requested form, the list generate hands to save has length
\* min(previousLength + 1, maxTokens), previousLength being the length after
\* expiry pruning; it ends with the new credential and is the tail of the
\* pruned list followed by the new credential.
Before(l, f) == IF HasForm(l.sessIn, f) THEN l.pruned[f] ELSE <<>>

AppendedOnce(l, f) ==
  LET n == Min(Len(Before(l, f)) + 1, config.maxTokens) IN
    /\ Len(l.details[f]) = n
    /\ l.details[f][n] = l.resp[f]
    /\ l.details[f] = LastN(Append(Before(l, f), l.resp[f]), n)

C3_Append ==
  \A c \in Callers :
    last[c].op = "generate" =>
      \A i \in 1..Len(last[c].forms) : AppendedOnce(last[c], last[c].forms[i])

\* C4: after n generate calls in sequence for one form, starting from an
\* absent session or one without data for the form and each passing the session
\* the previous call returned, the stored list of the form holds exactly the
\* last min(n, maxTokens) credentials generated, in order.
C4_Sequential ==
  \A c \in Callers :
    LET l == last[c] IN
    ( /\ l.op = "generate" /\ l.run # <<>> /\ Succeeded(c)
      /\ \A x \in Range(l.run) : ~Expired(x, l.time) ) =>
        /\ Stored(sess[c], l.forms[1])
        /\ store[sess[c].id][l.forms[1]] =
             LastN(l.run, Min(Len(l.run), config.maxTokens))

\* C5: in validate at time now, a credential of the form created at
\* now - expiry - 1 is gone from the session's list after the call and is not
\* matched by its own token under its own field name; one created at
\* now - expiry + 1 and submitted so is matched.
C5_ExpiryBoundary ==
  \A c \in Callers :
    LET l == last[c] IN
    (l.op = "validate" /\ HasForm(l.sessIn, l.forms[1])) =>
      \A x \in Range(l.sessIn.csrf[l.forms[1]]) :
        /\ x.created = l.time - config.expiry - 1 =>
             /\ x \notin Range(sess[c].csrf[l.forms[1]])
             /\ l.body = FormBody(x) => l.ret = "false"
        /\ (x.created = l.time - config.expiry + 1 /\ l.body = FormBody(x)) =>
             l.ret = "true"

\* The correct field of a credential one tick past expiry was submitted.
C5_Witness ==
  \E c \in Callers :
    LET l == last[c] IN
    /\ l.op = "validate" /\ HasForm(l.sessIn, l.forms[1])
    /\ \E x \in Range(l.sessIn.csrf[l.forms[1]]) :
         /\ x.created = l.time - config.expiry - 1
         /\ l.body = FormBody(x)
         /\ l.ret = "false"

\* C6: validate issues one store call when a credential matched and
\* expireAfterUse is true, and none otherwise: none without a session or
\* without data for the form (not matched), none when nothing matches even if
\* pruning removed credentials, none on a match with expireAfterUse false,
\* where the matched credential stays in the list.
C6_StoreCalls ==
  \A c \in Callers :
    LET l == last[c] IN
    l.op = "validate" =>
      /\ Len(l.calls) <= 1
      /\ (Len(l.calls) = 1) <=> (l.ret = "true" /\ config.expireAfterUse)
      /\ ~HasForm(l.sessIn, l.forms[1]) => (l.ret = "false" /\ l.calls = <<>>)
      /\ (l.ret = "true" /\ ~config.expireAfterUse) =>
           /\ sess[c].csrf[l.forms[1]] = l.pruned[l.forms[1]]
           /\ Scmp(Field(l.body, FieldName(l.pruned[l.forms[1]][l.hit])),
                   l.pruned[l.forms[1]][l.hit].token)

\* Nothing matched, pruning removed a credential, no store call was made.
C6_Witness ==
  \E c \in Callers :
    LET l == last[c] IN
    /\ l.op = "validate" /\ l.ret = "false"
    /\ HasForm(l.sessIn, l.forms[1])
    /\ l.pruned # l.sessIn.csrf
    /\ l.calls = <<>>

\* C7: every generate issues exactly one store call, a create or an update,
\* whatever forms are requested and whatever pruning changed.
C7_OneCall ==
  \A c \in Callers :
    last[c].op = "generate" =>
      /\ Len(last[c].calls) = 1
      /\ last[c].calls[1].kind \in {"post", "patch"}
      /\ pc[c] = "wait" => pending[c] = last[c].calls[1]

\* A generate for two form names on a session in which pruning changed a
\* list: one call carries all of it.
C7_Witness ==
  \E c \in Callers :
    LET l == last[c] IN
    /\ l.op = "generate" /\ Len(l.forms) = 2
    /\ l.pruned # l.sessIn.csrf
    /\ Len(l.calls) = 1

\* C8: save issues one call.  Without a session or a session id it is a create
\* carrying the details, answered with the store's new session and
\* created = true; otherwise it is an update addressed to session.id carrying
\* the details, answered with the session save was given and created = false.
C8_Save ==
  \A c \in Callers :
    LET l == last[c] IN
    l.calls # <<>> =>
      /\ Len(l.calls) = 1
      /\ IF ~l.sessIn.present \/ l.sessIn.id = 0
           THEN l.calls[1] = Post(l.details)
           ELSE l.calls[1] = Patch(l.sessIn.id, l.details)
      /\ Succeeded(c) =>
           IF l.calls[1].kind = "post"
             THEN /\ l.cbs[1].sess.present
                  /\ l.cbs[1].sess.id \notin {0, l.sessIn.id}
                  /\ l.cbs[1].sess.csrf = l.details
                  /\ store[l.cbs[1].sess.id] = l.details
                  /\ l.op = "generate" => l.cbs[1].created = "true"
             ELSE /\ l.cbs[1].sess = sess[c]
                  /\ l.cbs[1].sess.id = l.sessIn.id
                  /\ l.op = "generate" => l.cbs[1].created = "false"

\* An update of a session that had an id succeeded.
C8_Witness ==
  \E c \in Callers :
    /\ Succeeded(c) /\ last[c].op = "generate"
    /\ last[c].calls = <<Patch(last[c].sessIn.id, last[c].details)>>
    /\ last[c].cbs[1].created = "false"

\* C9: when the store call of generate or validate fails, the session the
\* caller holds has the CSRF details it had before the call.
C9_NoPartialMutation ==
  \A c \in Callers : FailedOp(c) => sess[c] = last[c].sessIn

\* C10: when the store call fails with error e, the callback is invoked once,
\* with e alone, and no further store call is made.
C10_ErrorPropagated ==
  \A c \in Callers :
    LET l == last[c] IN
    l.storeErr # NoError =>
      /\ l.cbs = <<Cb(l.storeErr, 1, <<>>, FALSE, Null, "undefined")>>
      /\ Len(l.calls) = 1
      /\ pc[c] = "idle" /\ pending[c] = NoCall

\* The update that removes a matched credential failed.
C10_Witness ==
  \E c \in Callers :
    /\ last[c].op = "validate" /\ last[c].storeErr \in Errors
    /\ last[c].ret = "true"

\* C11: a request is reported as a CSRF validation failure only when the
\* submitted token is absent, mismatched or expired; when the token matched and
\* the store call that persists its removal failed, validate and
\* validateMiddleware report the storage error.
C11_NotConflated ==
  \A c \in Callers :
    LET l == last[c] IN
    l.op = "validate" =>
      /\ \A k \in 1..Len(l.cbs) :
           ValidateMiddleware(l)[k] = InvalidCSRF => l.ret = "false"
      /\ l.storeErr # NoError =>
           /\ l.cbs = <<Cb(l.storeErr, 1, <<>>, FALSE, Null, "undefined")>>
           /\ ValidateMiddleware(l) = <<l.storeErr>>

\* C12: validate never raises: whatever the session and the submission, an
\* absent body included, it returns; and when no credential of the form has
\* its token in the body it returns false and calls back with false.
NoneMatches(l) ==
  \A x \in Range(l.pruned[l.forms[1]]) : ~Scmp(Field(l.body, FieldName(x)), x.token)

C12_NeverThrows ==
  \A c \in Callers :
    LET l == last[c] IN
    l.op = "validate" =>
      /\ l.ret # "throw"
      /\ (HasForm(l.sessIn, l.forms[1]) /\ NoneMatches(l)) =>
           /\ l.ret = "false"
           /\ l.cbs = <<Cb(NoError, 2, <<>>, FALSE, Null, "undefined")>>

\* C13: two requests for the same persisted session that read the same
\* details race at the store.  Nothing holds back a request while another
\* one has a store call in flight for the session (no lock); and when two
\* generate calls that started from the same details have both completed for a
\* form, the store holds the list one of them wrote, which lacks the credential
\* the other one returned.
Raced(c, d) ==
  /\ c # d
  /\ last[c].op = "generate" /\ last[d].op = "generate"
  /\ Succeeded(c) /\ Succeeded(d)
  /\ last[c].sessIn = last[d].sessIn
  /\ last[c].sessIn.present

C13_LastWriterWins ==
  \A c, d \in Callers :
    /\ (c # d /\ pc[c] = "idle" /\ pc[d] = "wait" /\ pending[d].id = sess[c].id)
         => ENABLED Validate(c, "login", <<>>)
    /\ Raced(c, d) =>
         \A f \in DOMAIN last[c].resp \cap DOMAIN last[d].resp :
           LET stored == store[last[c].sessIn.id][f] IN
           /\ stored \in {last[c].details[f], last[d].details[f]}
           /\ ~(last[c].resp[f] \in Range(stored) /\ last[d].resp[f] \in Range(stored))

\* Both generate calls reported success, and the credential caller 1 returned
\* for the login form is not in the store.
C13_Witness ==
  /\ Raced(1, 2)
  /\ "login" \in DOMAIN last[1].resp \cap DOMAIN last[2].resp
  /\ last[1].resp["login"] \notin Range(store[1]["login"])
  /\ last[2].resp["login"] \in Range(store[1]["login"])

\* C14: on a match with expireAfterUse true, validate takes exactly the
\* matched credential out of the form's pruned list, the others staying in
\* order; it issues one store call carrying that list and the pruned list of
\* every other form pruning changed, and of no other form; on success it calls
\* back once with matched = true and the session the store call answered,
\* which holds the list without the credential.
Without(l, i, r) ==
  /\ Len(r) = Len(l) - 1
  /\ \A k \in 1..Len(r) : r[k] = IF k < i THEN l[k] ELSE l[k + 1]

C14_Consume ==
  \A c \in Callers :
    LET l == last[c]
        f == l.forms[1]
    IN (l.op = "validate" /\ l.ret = "true" /\ config.expireAfterUse) =>
         /\ l.hit \in 1..Len(l.pruned[f])
         /\ Scmp(Field(l.body, FieldName(l.pruned[f][l.hit])), l.pruned[f][l.hit].token)
         /\ Len(l.calls) = 1
         /\ l.calls[1].details = l.details
         /\ Without(l.pruned[f], l.hit, l.details[f])
         /\ DOMAIN l.details =
              {f} \cup {g \in DOMAIN l.sessIn.csrf : l.pruned[g] # l.sessIn.csrf[g]}
         /\ \A g \in DOMAIN l.details \ {f} : l.details[g] = l.pruned[g]
         /\ Len(l.cbs) <= 1
         /\ Succeeded(c) =>
              /\ l.cbs = <<Cb(NoError, 3, <<>>, TRUE, sess[c], "undefined")>>
              /\ sess[c].id = l.sessIn.id
              /\ sess[c].csrf = Put(l.pruned, f, l.details[f])
              /\ \A g \in DOMAIN l.details : store[sess[c].id][g] = l.details[g]

\* The second of two credentials matched and was removed, and the same store
\* call carried the pruned list of the other form.
C14_Witness ==
  \E c \in Callers :
    LET l == last[c] IN
    /\ l.op = "validate" /\ l.ret = "true" /\ config.expireAfterUse
    /\ Succeeded(c)
    /\ l.hit = 2
    /\ DOMAIN l.details = Forms

\* C15: _expire, as generate and validate call it on a session, removes from
\* every form's list the credentials with created < now - expiry and no
\* others, the rest staying in order; the details it reports are the pruned
\* lists of exactly the forms whose lists it changed; applied again at the
\* same instant to the pruned session it changes nothing and reports nothing.
Kept(l, t) ==
  LET Fresh(x) == ~(x.created < t - config.expiry) IN SelectSeq(l, Fresh)

Prunes(l) ==
  /\ l.sessIn.present
  /\ l.op = "generate" \/ (l.op = "validate" /\ HasForm(l.sessIn, l.forms[1]))

C15_Expire ==
  \A c \in Callers :
    LET l == last[c]
        e == Expire(l.sessIn, l.time)
        again == Expire(Session(l.sessIn.id, e.csrf), l.time)
    IN Prunes(l) =>
         /\ l.pruned = e.csrf
         /\ DOMAIN e.csrf = DOMAIN l.sessIn.csrf
         /\ \A f \in DOMAIN e.csrf : e.csrf[f] = Kept(l.sessIn.csrf[f], l.time)
         /\ DOMAIN e.details = {f \in DOMAIN e.csrf : e.csrf[f] # l.sessIn.csrf[f]}
         /\ \A f \in DOMAIN e.details : e.details[f] = e.csrf[f]
         /\ again.csrf = e.csrf
         /\ again.details = <<>>

\* A call pruned a list of two credentials down to the younger one.
C15_Witness ==
  \E c \in Callers, f \in Forms :
    LET l == last[c] IN
    /\ Prunes(l) /\ f \in DOMAIN l.sessIn.csrf
    /\ Len(l.sessIn.csrf[f]) = 2
    /\ l.pruned[f] = <<l.sessIn.csrf[f][2]>>

\* C16: the field a credential is looked up under is its own: config.name
\* followed by the credential's name when useName is on and the credential has
\* a name, config.name alone otherwise.  validate reports a match exactly
\* when some credential of the pruned list has its token submitted under its
\* field; the credential it matches is the oldest such one, and with
\* expireAfterUse that one credential alone leaves the list, even when the
\* body carries the tokens of several.
Expected(x) == IF config.useName /\ x.name # NoName THEN x.name ELSE NoName

Submitted(l) ==
  {k \in 1..Len(l.pruned[l.forms[1]]) :
     LET x == l.pruned[l.forms[1]][k] IN
     Expected(x) \in DOMAIN l.body /\ l.body[Expected(x)] = x.token}

C16_FirstMatch ==
  \A c \in Callers :
    LET l == last[c]
        f == l.forms[1]
    IN (l.op = "validate" /\ HasForm(l.sessIn, f) /\ l.ret # "throw") =>
         /\ (l.ret = "true") <=> (Submitted(l) # {})
         /\ l.ret = "true" =>
              /\ l.hit \in Submitted(l)
              /\ \A k \in Submitted(l) : l.hit <= k
              /\ sess[c].csrf[f] =
                   IF config.expireAfterUse
                     THEN [k \in 1..(Len(l.pruned[f]) - 1) |->
                             l.pruned[f][IF k < l.hit THEN k ELSE k + 1]]
                     ELSE l.pruned[f]
         /\ l.ret = "false" => sess[c].csrf[f] = l.pruned[f]

\* useName is on, the older credential has no name and the younger has one;
\* the body carried both tokens under their fields; the older one matched and
\* was removed, the younger stays.
C16_Witness ==
  \E c \in Callers :
    LET l == last[c] IN
    /\ l.op = "validate" /\ l.ret = "true" /\ Succeeded(c)
    /\ config.useName /\ config.expireAfterUse
    /\ Len(l.pruned[l.forms[1]]) = 2
    /\ l.pruned[l.forms[1]][1].name = NoName
    /\ l.pruned[l.forms[1]][2].name # NoName
    /\ Submitted(l) = {1, 2}
    /\ l.hit = 1
    /\ sess[c].csrf[l.forms[1]] = <<l.pruned[l.forms[1]][2]>>

\* C17: with expireAfterUse on, validateMiddleware has passed a request on
\* only when the store call of its validate has been answered without error,
\* and in the step in which it passes the request on that answer arrives: the
\* store then holds the form's list without the matched credential.
\* validateMiddlewareQuick had passed the same request on before, while the
\* store call was still outstanding.
PassedOn(l) == l.op = "validate" /\ Passed \in Range(ValidateMiddleware(l))

Consumed(l) == l.pruned[l.forms[1]][l.hit]

Accepts(c) == config.expireAfterUse /\ ~PassedOn(last[c]) /\ PassedOn(last'[c])

Persists(c) ==
  /\ pc[c] = "wait" /\ pc'[c] = "idle"
  /\ pending[c].kind = "patch"
  /\ last'[c].storeErr = NoError
  /\ Consumed(last[c]) \notin Range(store'[pending[c].id][last[c].forms[1]])
  /\ ValidateMiddlewareQuick(last[c]) = Passed
  /\ ValidateMiddleware(last[c]) = <<>>

C17_Ordering ==
  /\ [](\A c \in Callers :
          (config.expireAfterUse /\ PassedOn(last[c])) =>
             /\ pc[c] = "idle"
             /\ Len(last[c].calls) = 1
             /\ last[c].storeErr = NoError)
  /\ [][\A c \in Callers : Accepts(c) => Persists(c)]_vars

\* Request 1 matched a credential and waits for the store; the quick
\* middleware has passed it on, the store still holds the credential, and
\* request 2, carrying the same token, has been passed on by the quick
\* middleware as well.
C17_Witness ==
  /\ config.expireAfterUse
  /\ pc[1] = "wait" /\ last[1].op = "validate" /\ last[1].ret = "true"
  /\ ValidateMiddlewareQuick(last[1]) = Passed
  /\ ValidateMiddleware(last[1]) = <<>>
  /\ Consumed(last[1]) \in Range(store[1][last[1].forms[1]])
  /\ last[2].op = "validate" /\ last[2].ret = "true"
  /\ last[2].body = last[1].body
  /\ Consumed(last[2]) = Consumed(last[1])
  /\ ValidateMiddlewareQuick(last[2]) = Passed

\* C18: validate(f, session, body) reports a match only for a credential of
\* form f's own list that has not expired and whose token the body carries
\* under its field.  A credential of another form g, submitted under its own
\* field, is not matched, and validate(f) takes nothing out of g's list beyond
\* what pruning removed.
OwnMatch(l) ==
  \E x \in Range(l.pruned[l.forms[1]]) :
    /\ ~(x.created < l.time - config.expiry)
    /\ x \in Range(l.sessIn.csrf[l.forms[1]])
    /\ Scmp(Field(l.body, Expected(x)), x.token)

C18_FormBinding ==
  \A c \in Callers :
    LET l == last[c]
        f == l.forms[1]
    IN (l.op = "validate" /\ HasForm(l.sessIn, f) /\ l.ret # "throw") =>
         /\ (l.ret = "true") <=> OwnMatch(l)
         /\ l.ret = "true" => Consumed(l) \in Range(l.sessIn.csrf[f])
         /\ \A g \in DOMAIN l.pruned \ {f} :
              /\ sess[c].csrf[g] = l.pruned[g]
              /\ sess[c].csrf[g] = Kept(l.sessIn.csrf[g], l.time)
              /\ g \in DOMAIN l.details => l.details[g] = l.pruned[g]

\* validate(f) was given the token of an unexpired credential of form g under
\* that credential's field, while f's list held a credential: not matched, and
\* the credential is still in g's list.
C18_Witness ==
  \E c \in Callers, g \in Forms :
    LET l == last[c] IN
    /\ l.op = "validate" /\ g # l.forms[1]
    /\ HasForm(l.sessIn, l.forms[1]) /\ HasForm(l.sessIn, g)
    /\ l.pruned[l.forms[1]] # <<>>
    /\ \E y \in Range(l.pruned[g]) :
         /\ l.body = FormBody(y)
         /\ y \in Range(sess[c].csrf[g])
    /\ l.ret = "false"

\* C19: generate for forms F and validate for form f change the list of
\* another form g of the session they are given only by removing its expired
\* credentials: the session's list of g afterwards, and the list of g in the
\* details sent to the store if g is there at all, is the list as given
\* without the expired credentials.  The details name no form besides the
\* requested ones and those pruning changed, the session gains no form, and
\* validate leaves no credential in any list that was not there before.
Asked(l) == {l.forms[k] : k \in 1..Len(l.forms)}

Given(l) == IF l.sessIn.present THEN DOMAIN l.sessIn.csrf ELSE {}

Mutates(l) == l.op = "generate" \/ (l.op = "validate" /\ HasForm(l.sessIn, l.forms[1]))

C19_Frame ==
  \A c \in Callers :
    LET l == last[c] IN
    Mutates(l) =>
      /\ DOMAIN l.details \subseteq Asked(l) \cup Given(l)
      /\ \A g \in DOMAIN l.details \ Asked(l) :
           /\ l.details[g] = Kept(l.sessIn.csrf[g], l.time)
           /\ l.details[g] # l.sessIn.csrf[g]
      /\ l.sessIn.present =>
           /\ DOMAIN sess[c].csrf = Given(l)
           /\ \A g \in Given(l) \ Asked(l) :
                sess[c].csrf[g] = Kept(l.sessIn.csrf[g], l.time)
      /\ l.op = "validate" =>
           /\ \A g \in Given(l) : Range(sess[c].csrf[g]) \subseteq Range(l.sessIn.csrf[g])
           /\ \A g \in DOMAIN l.details : Range(l.details[g]) \subseteq Range(l.sessIn.csrf[g])

\* generate was asked for one form while another form of the session held an
\* expired and an unexpired credential: the other form's list lost the expired
\* one, and that pruned list went to the store with the requested form's.
C19_Witness ==
  \E c \in Callers, g \in Forms :
    LET l == last[c] IN
    /\ l.op = "generate" /\ Succeeded(c)
    /\ Asked(l) = Forms \ {g}
    /\ g \in Given(l)
    /\ Len(l.sessIn.csrf[g]) = 2
    /\ sess[c].csrf[g] = <<l.sessIn.csrf[g][2]>>
    /\ DOMAIN l.details = Forms

\* C20: when the store answers every call once, every generate and every
\* validate that does not throw invokes the caller's callback exactly once:
\* at once when it issues no store call (no session or no list for the form,
\* no match, match without removal), and otherwise when the one store call it
\* issued is answered, with the result or with the store's error; a call
\* that waits for the store is eventually completed.
Completed(c) == pc[c] = "idle" /\ Len(last[c].cbs) = 1

C20_ExactlyOnce ==
  /\ [](\A c \in Callers :
          LET l == last[c] IN
          (l.op # "none" /\ l.ret # "throw") =>
             /\ Len(l.cbs) <= 1
             /\ pc[c] = "idle" => Len(l.cbs) = 1
             /\ pc[c] = "wait" =>
                  /\ l.cbs = <<>>
                  /\ l.calls = <<pending[c]>>
                  /\ pending[c].kind \in {"post", "patch"}
             /\ l.calls = <<>> => Completed(c))
  /\ \A c \in Callers : (pc[c] = "wait") ~> Completed(c)

\* A validate matched, its store call failed, and the callback ran once,
\* with the error.
C20_Witness ==
  \E c \in Callers :
    /\ last[c].op = "validate" /\ last[c].ret = "true"
    /\ last[c].storeErr # NoError
    /\ Completed(c)
    /\ Len(last[c].calls) = 1

====
